---- MODULE Spec2Model ----
(***************************************************************************)
(* Model of prepopulateSpecfile.py: load a zipped shapefile, collect the   *)
(* column sets that identify a zone, optionally drop the zones whose       *)
(* dissolved area is too small, and write the skeleton of a spec file.     *)
(*                                                                         *)
(* Text is a sequence of one-character strings, so that split, strip,      *)
(* endswith, replace and string comparison are computed and not assumed.   *)
(* A geometry is a set of unit cells of one square kilometre each in the   *)
(* equal-area plane: union is set union and area is the number of cells.   *)
(***************************************************************************)
EXTENDS Integers, Sequences, FiniteSets, TLC

\* ------------------------------------------------------------------ bounds
MaxMembers == 2
MaxRecords == 3
MaxColsets == 2

\* ------------------------------------------------------------------- text
Range(s) == {s[i] : i \in DOMAIN s}

RECURSIVE Flatten(_)
Flatten(ss) == IF ss = <<>> THEN <<>> ELSE Head(ss) \o Flatten(Tail(ss))

IsPrefix(p, s) == Len(p) <= Len(s) /\ SubSeq(s, 1, Len(p)) = p

EndsWith(s, suf) ==
    Len(suf) <= Len(s) /\ SubSeq(s, Len(s) - Len(suf) + 1, Len(s)) = suf

\* str.replace(old, new): leftmost occurrences, not overlapping
RECURSIVE Replace(_, _, _)
Replace(s, old, new) ==
    IF s = <<>> THEN <<>>
    ELSE IF IsPrefix(old, s)
         THEN new \o Replace(SubSeq(s, Len(old) + 1, Len(s)), old, new)
         ELSE <<Head(s)>> \o Replace(Tail(s), old, new)

\* str.split(','): the pieces between the commas, empty pieces included
RECURSIVE SplitFrom(_, _)
SplitFrom(s, cur) ==
    IF s = <<>> THEN <<cur>>
    ELSE IF Head(s) = "," THEN <<cur>> \o SplitFrom(Tail(s), <<>>)
         ELSE SplitFrom(Tail(s), Append(cur, Head(s)))

Split(s) == SplitFrom(s, <<>>)

\* str.strip(): whitespace removed at both ends
RECURSIVE LStrip(_)
LStrip(s) == IF s # <<>> /\ Head(s) = " " THEN LStrip(Tail(s)) ELSE s

RECURSIVE RStrip(_)
RStrip(s) ==
    IF s # <<>> /\ s[Len(s)] = " " THEN RStrip(SubSeq(s, 1, Len(s) - 1)) ELSE s

Strip(s) == RStrip(LStrip(s))

\* code points of the characters that occur in attribute values
Ord(c) ==
    CASE c = "A" -> 65 [] c = "B" -> 66 [] c = "P" -> 80 [] c = "Q" -> 81
      [] OTHER -> 0

\* s < t for Python strings
RECURSIVE StrLess(_, _)
StrLess(s, t) ==
    IF t = <<>> THEN FALSE
    ELSE IF s = <<>> THEN TRUE
    ELSE IF Head(s) = Head(t) THEN StrLess(Tail(s), Tail(t))
    ELSE Ord(Head(s)) < Ord(Head(t))

\* ------------------------------------------------------------ input pools
None == <<"None">>

ColZ == <<"Z">>
ColU == <<"U">>
ColGeometry == <<"g", "e", "o", "m", "e", "t", "r", "y">>

Done == <<"d", "o", "n", "e">>

\* lines the operator may type at the prompt
Lines ==
    { Done,
      <<" ", "d", "o", "n", "e">>,
      <<"Z">>,
      <<"U", ",", " ", "Z">>,
      <<"Z", ",", "X">>,
      <<>> }

ShpA == <<"a", ".", "s", "h", "p">>
ShpB == <<"b", ".", "s", "h", "p">>
DbfA == <<"a", ".", "d", "b", "f">>
DotShp == <<".", "s", "h", "p">>

MemberNames == {ShpA, ShpB, DbfA}

RECURSIVE SeqsUpTo(_, _)
SeqsUpTo(S, n) ==
    IF n = 0 THEN {<<>>}
    ELSE LET prev == SeqsUpTo(S, n - 1)
         IN  prev \cup {Append(q, x) : q \in {p \in prev : Len(p) = n - 1}, x \in S}

Archives == SeqsUpTo(MemberNames, MaxMembers)

NullGeom == [null |-> TRUE, cells |-> {}]
Geom(cs) == [null |-> FALSE, cells |-> cs]

Feature(z, u, g) == [attrs |-> (ColZ :> z @@ ColU :> u), geometry |-> g]

RecordPool ==
    { Feature(<<"A">>, <<"P">>, Geom({1})),
      Feature(<<"A">>, <<"Q">>, Geom({2})),
      Feature(<<"B">>, <<"P">>, Geom({1, 2})),
      Feature(<<"A">>, None, NullGeom) }

Shapefiles == SeqsUpTo(RecordPool, MaxRecords)

Thresholds == {0, 1}

CliArgs ==
    [drop_small_zones : {[given |-> FALSE, km |-> 0]}
                          \cup {[given |-> TRUE, km |-> t] : t \in Thresholds},
     imperial : BOOLEAN]

Zone == <<"z", "o", "n", "e">>
Hectares == <<"H", "e", "c", "t", "a", "r", "e", "s">>
Acres == <<"A", "c", "r", "e", "s">>
Meters == <<"M", "e", "t", "e", "r", "s">>
Feet == <<"F", "e", "e", "t">>

\* keys of the variable registry of zoneingest, in their canonical metric form
Registries ==
    { << Zone,
         <<"m", "a", "x", "H", "e", "i", "g", "h", "t", "M", "e", "t", "e", "r", "s">>,
         <<"m", "i", "n", "L", "o", "t", "S", "i", "z", "e", "H", "e", "c", "t", "a", "r", "e", "s">> >>,
      << <<"m", "a", "x", "U", "n", "i", "t", "s", "P", "e", "r", "H", "e", "c", "t", "a", "r", "e">>,
         Zone,
         <<"m", "a", "x", "F", "a", "r">> >> }

\* ------------------------------------------------------------------ state
VARIABLES
    pc,         \* position in the script
    err,        \* the exception that ended the run, "" while none
    args,       \* parsed command line
    variables,  \* keys of the imported variable registry
    tmp,        \* extraction directory: "unset", "present" or "removed"
    extracted,  \* members extracted into tmp
    pending,    \* members of zf.infolist() not yet visited
    shapePath,  \* path of the .shp member, None while not found
    shp,        \* the data frame, a sequence of features
    line,       \* last line read at the prompt
    colsets,    \* accepted column lists
    cols,       \* flattened, uniquified columns
    removed,    \* number of small zones reported as removed
    outf,       \* rows written to the spec file
    k           \* index of the next colset to write

vars == <<pc, err, args, variables, tmp, extracted, pending, shapePath, shp,
          line, colsets, cols, removed, outf, k>>

Init ==
    /\ pc = "mkdtemp"
    /\ err = ""
    /\ args \in CliArgs
    /\ variables \in Registries
    /\ tmp = "unset"
    /\ extracted = {}
    /\ pending = <<>>
    /\ shapePath = None
    /\ shp = <<>>
    /\ line = <<>>
    /\ colsets = <<>>
    /\ cols = <<>>
    /\ removed = 0
    /\ outf = <<>>
    /\ k = 1

\* ------------------------------------------------------------- load stage
Raise(e) == pc' = "failed" /\ err' = e

\* tmp = mkdtemp()
MkDTemp ==
    /\ pc = "mkdtemp"
    /\ tmp' = "present"
    /\ pc' = "open"
    /\ UNCHANGED <<err, args, variables, extracted, pending, shapePath, shp,
                   line, colsets, cols, removed, outf, k>>

\* with open(shpzip, 'rb') as raw: zf = ZipFile(raw)
OpenArchive ==
    /\ pc = "open"
    /\ \/ /\ \E a \in Archives : pending' = a
          /\ pc' = "extract"
          /\ err' = err
       \/ /\ Raise("FileNotFoundError")
          /\ pending' = pending
    /\ UNCHANGED <<args, variables, tmp, extracted, shapePath, shp,
                   line, colsets, cols, removed, outf, k>>

\* one iteration of: for zi in zf.infolist()
ExtractMember ==
    /\ pc = "extract"
    /\ pending # <<>>
    /\ LET pth == Head(pending) IN
         /\ extracted' = extracted \cup {pth}
         /\ pending' = Tail(pending)
         /\ IF EndsWith(pth, DotShp)
            THEN IF shapePath # None
                 THEN Raise("NameError") /\ shapePath' = shapePath
                 ELSE shapePath' = pth /\ UNCHANGED <<pc, err>>
            ELSE UNCHANGED <<pc, err, shapePath>>
    /\ UNCHANGED <<args, variables, tmp, shp, line, colsets, cols, removed, outf, k>>

\* the preprocessing hook of the dataset; none registered
runHook(frame) == frame

\* shp = gp.read_file(shapePath); rmtree(tmp); shp = runHook(...)
ReadShapefile ==
    /\ pc = "extract"
    /\ pending = <<>>
    /\ \/ /\ shapePath # None
          /\ \E f \in Shapefiles : shp' = runHook(f)
          /\ tmp' = "removed"
          /\ extracted' = {}
          /\ pc' = "input"
          /\ err' = err
       \/ /\ Raise("ReadError")
          /\ UNCHANGED <<shp, tmp, extracted>>
    /\ UNCHANGED <<args, variables, pending, shapePath, line, colsets, cols,
                   removed, outf, k>>

\* ------------------------------------------------------ column selection
\* shp.columns.values
ShpColumns == {ColZ, ColU, ColGeometry}

\* [c.strip() for c in cols.split(',')]
ParseCols(l) == LET parts == Split(l) IN [i \in DOMAIN parts |-> Strip(parts[i])]

\* any() written for all()
SomeColumnExists(cs) == \E i \in DOMAIN cs : cs[i] \in ShpColumns

\* all([col in shp.columns.values for col in cols])
AllColumnsExist(cs) == \A i \in DOMAIN cs : cs[i] \in ShpColumns

\* one iteration of the while True loop
ReadColset ==
    /\ pc = "input"
    /\ \E l \in Lines :
         /\ line' = l
         /\ IF l = Done
            THEN pc' = "flatten" /\ colsets' = colsets
            ELSE /\ pc' = pc
                 /\ IF AllColumnsExist(ParseCols(l))
                    THEN /\ Len(colsets) < MaxColsets
                         /\ colsets' = Append(colsets, ParseCols(l))
                    ELSE colsets' = colsets
    /\ UNCHANGED <<err, args, variables, tmp, extracted, pending, shapePath,
                   shp, cols, removed, outf, k>>

\* [col for i, col in enumerate(cols) if col not in cols[:i]]
RECURSIVE UniquifyFrom(_, _)
UniquifyFrom(cs, i) ==
    IF i > Len(cs) THEN <<>>
    ELSE (IF \E j \in 1..(i - 1) : cs[j] = cs[i] THEN <<>> ELSE <<cs[i]>>)
         \o UniquifyFrom(cs, i + 1)

\* only the first colset flattened
FlattenFirstColset(css) == IF css = <<>> THEN <<>> ELSE UniquifyFrom(Head(css), 1)

\* flatten the colsets, then uniquify preserving order
FlattenCols(css) == UniquifyFrom(Flatten(css), 1)

\* shp[col] = shp[col].apply(lambda x: x if x is not None else '') for col in cs
FillMissing(frame, cs) ==
    [i \in DOMAIN frame |->
        [frame[i] EXCEPT !.attrs =
            [c \in DOMAIN frame[i].attrs |->
                IF c \in Range(cs) /\ frame[i].attrs[c] = None
                THEN <<>> ELSE frame[i].attrs[c]]]]

FlattenAndFill ==
    /\ pc = "flatten"
    /\ cols' = FlattenCols(colsets)
    /\ shp' = FillMissing(shp, FlattenCols(colsets))
    /\ pc' = IF args.drop_small_zones.given THEN "filter" ELSE "preamble"
    /\ UNCHANGED <<err, args, variables, tmp, extracted, pending, shapePath,
                   line, colsets, removed, outf, k>>

\* ------------------------------------------------------------ area filter
SqMPerSqKm == 1000000

Area(cells) == Cardinality(cells) * SqMPerSqKm

\* the values of one feature in the given columns, as a tuple
KeyOf(r, cs) == [i \in DOMAIN cs |-> r.attrs[cs[i]]]

\* shp[~shp.geometry.isnull()].to_crs(equal area)
Projected(frame) == LET HasGeom(r) == ~r.geometry.null IN SelectSeq(frame, HasGeom)

\* projected.dissolve(cs): one unioned geometry per key
Dissolve(frame, cs) ==
    LET keys == {KeyOf(r, cs) : r \in Range(frame)} IN
    [key \in keys |-> UNION {r.geometry.cells : r \in {q \in Range(frame) : KeyOf(q, cs) = key}}]

\* the comparison written as >=
IncludeZonesAtLeast(dissolve, minSizeSqM) ==
    {key \in DOMAIN dissolve : Cardinality(dissolve[key]) * 1000000 >= minSizeSqM}

\* the comparison written as <
IncludeZonesBelow(dissolve, minSizeSqM) ==
    {key \in DOMAIN dissolve : Cardinality(dissolve[key]) * 1000000 < minSizeSqM}

\* dissolve[dissolve.area > minSizeSqM].index
IncludeZones(dissolve, minSizeSqM) ==
    {key \in DOMAIN dissolve : Area(dissolve[key]) > minSizeSqM}

\* a mask that also keeps every feature without geometry
MaskKeepingNull(r, cs, includeZones) ==
    \/ r.geometry.null
    \/ KeyOf(r, cs) \in includeZones

\* the row mask of lines 86-89
Mask(r, cs, includeZones) ==
    IF Len(cs) # 1
    THEN KeyOf(r, cs) \in includeZones
    ELSE r.attrs[cs[1]] \in {key[1] : key \in includeZones}

DropSmallZones ==
    /\ pc = "filter"
    /\ IF cols = <<>>
       THEN Raise("ValueError") /\ UNCHANGED <<shp, removed>>
       ELSE LET minSizeSqM == args.drop_small_zones.km * SqMPerSqKm
                dissolve == Dissolve(Projected(shp), cols)
                includeZones == IncludeZones(dissolve, minSizeSqM)
                Keep(r) == Mask(r, cols, includeZones)
            IN  /\ shp' = SelectSeq(shp, Keep)
                /\ removed' = Cardinality(DOMAIN dissolve) - Cardinality(includeZones)
                /\ pc' = "preamble"
                /\ err' = err
    /\ UNCHANGED <<args, variables, tmp, extracted, pending, shapePath,
                   line, colsets, cols, outf, k>>

\* ---------------------------------------------------------------- writing
Documentation ==
    << << <<"// This is a spec file to parse zoning, generated by the autogeneration tool">> >>,
       << <<"// Any line with a first cell starting with // will be ignored ...">> >>,
       << <<"// Generated: strftime">> >> >>

FileHeader ==
    << << <<"jurisdiction">>, <<>>, <<"# Jurisdiction represented by this zoning">> >>,
       << <<"data">>, <<>>, <<"# URL for the data">> >>,
       << <<"year">>, <<>>, <<"# Year the data was generated">> >>,
       << <<"code">>, <<>>, <<"# URL of the zoning code used to fill out this file">> >> >>

ColumnRows(cs) ==
    [i \in DOMAIN cs |-> << <<"column">>, cs[i], <<"# Columns specifying unique zones">> >>]

Conventions ==
    << <<>>,
       << <<"// Each table below contains one component of the zone designator">> >>,
       << <<"// They will be applied in order ...">> >>,
       << <<"// These are the canonical forms of variables ...">> >>,
       << <<"// also be expressed in acres or square feet ...">> >>,
       << <<"// converted to maxUnitsPerHectare, by simply changing the variable names">> >> >>

WritePreamble ==
    /\ pc = "preamble"
    /\ outf' = Documentation \o FileHeader \o ColumnRows(cols) \o Conventions
    /\ k' = 1
    /\ pc' = IF colsets = <<>> THEN "done" ELSE "block"
    /\ UNCHANGED <<err, args, variables, tmp, extracted, pending, shapePath,
                   shp, line, colsets, cols, removed>>

\* shp[colset]
Project(frame, colset) == [i \in DOMAIN frame |-> KeyOf(frame[i], colset)]

\* DataFrame.drop_duplicates(): the first of equal rows is kept
RECURSIVE DropDuplicatesFrom(_, _)
DropDuplicatesFrom(rows, i) ==
    IF i > Len(rows) THEN <<>>
    ELSE (IF \E j \in 1..(i - 1) : rows[j] = rows[i] THEN <<>> ELSE <<rows[i]>>)
         \o DropDuplicatesFrom(rows, i + 1)

DropDuplicates(rows) == DropDuplicatesFrom(rows, 1)

\* row a sorts before row b: by the first column, ties by the next, ...
RowLess(a, b) ==
    \E i \in DOMAIN a : StrLess(a[i], b[i]) /\ \A j \in 1..(i - 1) : a[j] = b[j]

RECURSIVE InsertRow(_, _)
InsertRow(row, sorted) ==
    IF sorted = <<>> THEN <<row>>
    ELSE IF RowLess(row, Head(sorted)) THEN <<row>> \o sorted
    ELSE <<Head(sorted)>> \o InsertRow(row, Tail(sorted))

\* the frame left in the order of drop_duplicates
SortValuesSkipped(rows) == rows

\* DataFrame.sort_values(colset) on the projected frame
RECURSIVE SortValues(_)
SortValues(rows) ==
    IF rows = <<>> THEN <<>>
    ELSE InsertRow(rows[Len(rows)], SortValues(SubSeq(rows, 1, Len(rows) - 1)))

\* [v for v in variables.keys() if v != 'zone']
Attrs(registry) == LET NotZone(v) == v # Zone IN SelectSeq(registry, NotZone)

\* the second replace left out
ImperialNameAreasOnly(a) == Replace(a, Hectares, Acres)

\* a.replace('Hectares', 'Acres').replace('Meters', 'Feet')
ImperialName(a) == Replace(Replace(a, Hectares, Acres), Meters, Feet)

ResolvedAttrs(registry, imperial) ==
    IF imperial
    THEN [i \in DOMAIN Attrs(registry) |-> ImperialName(Attrs(registry)[i])]
    ELSE Attrs(registry)

\* the cells of the header row
HeaderRow(colset, attrs) == colset \o attrs

\* a data row padded with one empty cell per variable
DataRowPadded(x, attrs) == x \o [i \in DOMAIN attrs |-> <<>>]

\* the cells of one data row: x.values.tolist()
DataRow(x, attrs) == x

\* one iteration of: for colset in colsets
WriteBlock ==
    /\ pc = "block"
    /\ LET colset == colsets[k] IN
       LET relevantCols == SortValues(DropDuplicates(Project(shp, colset)))
           attrs == ResolvedAttrs(variables, args.imperial)
       IN  /\ outf' = outf \o <<HeaderRow(colset, attrs)>>
                          \o [i \in DOMAIN relevantCols |-> DataRow(relevantCols[i], attrs)]
                          \o << <<>> >>
           /\ k' = k + 1
           /\ pc' = IF k = Len(colsets) THEN "done" ELSE "block"
    /\ UNCHANGED <<err, args, variables, tmp, extracted, pending, shapePath,
                   shp, line, colsets, cols, removed>>

Next ==
    \/ MkDTemp
    \/ OpenArchive
    \/ ExtractMember
    \/ ReadShapefile
    \/ ReadColset
    \/ FlattenAndFill
    \/ DropSmallZones
    \/ WritePreamble
    \/ WriteBlock

Spec == Init /\ [][Next]_vars

\* ------------------------------------------------- reading the spec file
\* the rows after the documentation, header, column rows and conventions
BodyRows == SubSeq(outf, 14 + Len(cols), Len(outf))

\* the written blocks: each is a header row and its data rows, closed by a blank row
RECURSIVE SplitBlocks(_, _)
SplitBlocks(rows, cur) ==
    IF rows = <<>> THEN <<>>
    ELSE IF Head(rows) = <<>> THEN <<cur>> \o SplitBlocks(Tail(rows), <<>>)
    ELSE SplitBlocks(Tail(rows), Append(cur, Head(rows)))

Blocks == SplitBlocks(BodyRows, <<>>)

HeaderOf(b) == b[1]
DataRowsOf(b) == Tail(b)

Contains(s, sub) == \E i \in 1..(Len(s) - Len(sub) + 1) : SubSeq(s, i, i + Len(sub) - 1) = sub

NumVariables == Cardinality({i \in DOMAIN variables : variables[i] # Zone})

\* ------------------------------------------------------------------ C1
\* C1: the data rows of the block of colset g are the distinct value tuples
\* of the (filtered) records in g's columns, each once, in ascending
\* lexicographic order; the row count is the number of distinct tuples.
C1_RowsAreDistinctSortedTuples ==
    \A b \in DOMAIN Blocks :
        LET g == colsets[b]
            rows == DataRowsOf(Blocks[b])
            keyOf(row) == SubSeq(row, 1, Len(g))
            tuples == {[c \in DOMAIN g |-> shp[j].attrs[g[c]]] : j \in DOMAIN shp}
        IN  /\ {keyOf(rows[i]) : i \in DOMAIN rows} = tuples
            /\ Len(rows) = Cardinality(tuples)
            /\ \A i \in DOMAIN rows : \A j \in DOMAIN rows :
                   i < j => RowLess(keyOf(rows[i]), keyOf(rows[j]))

\* a finished file with a block of several rows made from records that were
\* neither distinct nor in order
C1_Witness ==
    /\ pc = "done"
    /\ \E b \in DOMAIN Blocks :
         /\ Len(colsets[b]) = 2
         /\ Len(DataRowsOf(Blocks[b])) = 2
         /\ Len(shp) = 3
         /\ \E j \in 1..(Len(shp) - 1) :
                RowLess(KeyOf(shp[j + 1], colsets[b]), KeyOf(shp[j], colsets[b]))

\* ------------------------------------------------------------------ C2
\* C2 as stated: in every block the header and every data row have the same
\* number of cells, a data row being the key values followed by one empty
\* cell per variable.
C2_HeaderWidthEqualsRowWidth ==
    \A b \in DOMAIN Blocks :
        LET g == colsets[b]
            rows == DataRowsOf(Blocks[b])
        IN  \A i \in DOMAIN rows :
               /\ Len(rows[i]) = Len(HeaderOf(Blocks[b]))
               /\ \A c \in (Len(g) + 1)..Len(rows[i]) : rows[i][c] = <<>>

\* C2 amended: the header is the colset's column names followed by one name
\* per variable other than zone, and every data row is the key values alone,
\* so the header is wider than each data row by the number of variables.
C2_RowsHoldKeyValuesOnly ==
    \A b \in DOMAIN Blocks :
        LET g == colsets[b]
            header == HeaderOf(Blocks[b])
            rows == DataRowsOf(Blocks[b])
        IN  /\ SubSeq(header, 1, Len(g)) = g
            /\ Len(header) = Len(g) + NumVariables
            /\ ~args.imperial =>
                   \A i \in DOMAIN variables : variables[i] # Zone =>
                       \E c \in (Len(g) + 1)..Len(header) : header[c] = variables[i]
            /\ \A c \in (Len(g) + 1)..Len(header) : header[c] # Zone
            /\ \A i \in DOMAIN rows :
                   /\ Len(rows[i]) = Len(g)
                   /\ \E j \in DOMAIN shp : rows[i] = KeyOf(shp[j], g)

C2_Witness ==
    /\ pc = "done"
    /\ Len(Blocks) = 2
    /\ \A b \in DOMAIN Blocks : Len(DataRowsOf(Blocks[b])) >= 2

C4_ColsetLoop ==
    /\ [][ pc = "input" =>
             LET parts == Split(line')
                 names == [i \in DOMAIN parts |-> Strip(parts[i])]
             IN  IF line' = <<"d", "o", "n", "e">>
                 THEN colsets' = colsets /\ pc' # "input"
                 ELSE IF \E i \in DOMAIN names : names[i] \notin {ColZ, ColU, ColGeometry}
                 THEN colsets' = colsets /\ pc' = "input"
                 ELSE colsets' = Append(colsets, names) /\ pc' = "input" ]_vars
    /\ [][ (pc = "input" /\ line' = <<"U", ",", " ", "Z">>) =>
             colsets' = Append(colsets, <<ColU, ColZ>>) ]_vars
    /\ [][ pc # "input" => colsets' = colsets ]_vars
    /\ [](\A i \in DOMAIN colsets : \A j \in DOMAIN colsets[i] :
              colsets[i][j] \in {ColZ, ColU, ColGeometry})

\* an entry with an unknown column was refused after another was accepted
C4_Witness ==
    /\ pc = "input"
    /\ line = <<"Z", ",", "X">>
    /\ colsets = << <<ColU, ColZ>> >>

\* ------------------------------------------------------------------ C5
\* C5: a run that fails on an archive with more than one .shp member fails
\* with MultipleShapefilesError, and one that fails for want of a .shp
\* member fails with NoShapefileError.
C5_DedicatedArchiveErrors ==
    LET shps == {m \in extracted : EndsWith(m, <<".", "s", "h", "p">>)} IN
    (pc = "failed" /\ err # "FileNotFoundError" /\ tmp = "present") =>
        /\ Cardinality(shps) > 1 => err = "MultipleShapefilesError"
        /\ (shps = {} /\ pending = <<>>) => err = "NoShapefileError"

\* ------------------------------------------------------------------ C6
\* C6 as stated: with several colsets the filter groups the records by the
\* first colset's columns only.
C6_FilterUsesFirstColsetOnly ==
    [][ (pc = "filter" /\ pc' = "preamble" /\ Len(colsets) >= 2) =>
          LET g == colsets[1]
              group(r) == {q \in Range(shp) : ~q.geometry.null
                                /\ \A c \in DOMAIN g : q.attrs[g[c]] = r.attrs[g[c]]}
              Stays(r) ==
                  /\ group(r) # {}
                  /\ Cardinality(UNION {q.geometry.cells : q \in group(r)}) * 1000000
                         > args.drop_small_zones.km * 1000000
          IN  shp' = SelectSeq(shp, Stays) ]_vars

\* C6 amended: with several colsets the filter groups and dissolves the
\* records by the columns of all the colsets together; a record survives iff
\* the records with geometry that agree with it on every one of those
\* columns dissolve to an area above the threshold.
C6_FilterUsesAllColsetColumns ==
    [][ (pc = "filter" /\ pc' = "preamble" /\ Len(colsets) >= 2) =>
          LET used == UNION {Range(colsets[i]) : i \in DOMAIN colsets}
              group(r) == {q \in Range(shp) : ~q.geometry.null
                                /\ \A c \in used : q.attrs[c] = r.attrs[c]}
              Stays(r) ==
                  /\ group(r) # {}
                  /\ Cardinality(UNION {q.geometry.cells : q \in group(r)}) * 1000000
                         > args.drop_small_zones.km * 1000000
          IN  shp' = SelectSeq(shp, Stays) ]_vars

\* two colsets over two columns, some zones dropped and some kept
C6_Witness ==
    /\ pc = "preamble"
    /\ args.drop_small_zones.given
    /\ Len(colsets) = 2
    /\ colsets[1] = <<ColZ>>
    /\ Len(cols) = 2
    /\ removed > 0
    /\ shp # <<>>

\* ------------------------------------------------------------------ C7
\* C7 as stated: every record without geometry is still present after the
\* area filter.
C7_NullGeometryNeverRemoved ==
    [][ (pc = "filter" /\ pc' = "preamble") =>
          \A i \in DOMAIN shp :
              shp[i].geometry.null => shp[i] \in Range(shp') ]_vars

\* C7 amended: a record without geometry is left out of the area
\* computation (a key carried by such records alone is not counted among the
\* removed zones), and it stays exactly when a record with geometry carrying
\* the same key stays.
C7_NullGeometryFollowsItsKey ==
    [][ (pc = "filter" /\ pc' = "preamble") =>
          /\ \A i \in DOMAIN shp :
                shp[i].geometry.null =>
                    (shp[i] \in Range(shp') <=>
                        \E j \in DOMAIN shp' :
                            /\ ~shp'[j].geometry.null
                            /\ \A c \in Range(cols) : shp'[j].attrs[c] = shp[i].attrs[c])
          /\ LET tupleOf(r) == [c \in DOMAIN cols |-> r.attrs[cols[c]]]
                 before == {tupleOf(shp[i]) : i \in {j \in DOMAIN shp : ~shp[j].geometry.null}}
                 after == {tupleOf(shp'[i]) : i \in {j \in DOMAIN shp' : ~shp'[j].geometry.null}}
             IN  removed' = Cardinality(before \ after) ]_vars

\* after filtering at 1 km2, a record without geometry is left beside the
\* records with geometry that carry its key
C7_Witness ==
    /\ pc = "preamble"
    /\ args.drop_small_zones.given
    /\ args.drop_small_zones.km = 1
    /\ \E i \in DOMAIN shp : \E j \in DOMAIN shp :
          /\ shp[i].geometry.null
          /\ ~shp[j].geometry.null
          /\ KeyOf(shp[i], cols) = KeyOf(shp[j], cols)

\* ------------------------------------------------------------------ C8
\* C8: for thresholds t1 < t2 on the same frame and columns, the keys
\* retained at t2 are among those retained at t1, and so are the records.
C8_FilterMonotonic ==
    (pc = "filter" /\ cols # <<>>) =>
        LET dissolve == Dissolve(Projected(shp), cols)
            Kept(t) == IncludeZones(dissolve, t * SqMPerSqKm)
            Survivors(t) == {i \in DOMAIN shp : Mask(shp[i], cols, Kept(t))}
        IN  \A t1 \in 0..3 : \A t2 \in 0..3 :
               t1 < t2 => Kept(t2) \subseteq Kept(t1) /\ Survivors(t2) \subseteq Survivors(t1)

\* a frame on which the retained keys shrink strictly, twice
C8_Witness ==
    /\ pc = "filter"
    /\ cols # <<>>
    /\ LET dissolve == Dissolve(Projected(shp), cols)
           Kept(t) == IncludeZones(dissolve, t * SqMPerSqKm)
       IN  /\ Kept(2) # Kept(1)
           /\ Kept(1) # Kept(0)
           /\ Kept(1) # {}

\* ------------------------------------------------------------------ C9
\* C9: once the load stage has ended, by success or by failure, the
\* extraction directory no longer exists.
C9_TempDirGoneAfterLoad ==
    pc \notin {"mkdtemp", "open", "extract"} => tmp = "removed"

\* ------------------------------------------------------------------ C10
MetricName(a) == Replace(Replace(a, Acres, Hectares), Feet, Meters)

IsMetricName(a) == Contains(a, Meters) \/ Contains(a, Hectares)
IsImperialName(a) == Contains(a, Feet) \/ Contains(a, Acres)

====
